---- MODULE Spec2Model ----
(***************************************************************************)
(* goserve, server/api.go: the JSON file-information API that ServeAPI     *)
(* mounts in front of an inner http.Handler.                               *)
(*                                                                         *)
(* Strings the code slices and compares (URL paths, the base path) are     *)
(* sequences of one-character strings, so TrimRight, HasPrefix and the     *)
(* [n:] slices are computed as the code computes them.  One request is     *)
(* handled at a time (the handler shares nothing between requests); the    *)
(* filesystem entry the request addresses is shared with other processes,  *)
(* which may change it between the handler's os.Stat and os.OpenFile.      *)
(* Requests are GET requests, the only method the interface documents.     *)
(***************************************************************************)
EXTENDS Integers, Sequences, FiniteSets, TLC

VARIABLES
    path,           \* ServeAPI: path after strings.TrimRight(path, "/")
    pathWithSlash,  \* ServeAPI: path + "/"
    pathLen,        \* ServeAPI: len(pathWithSlash)
    fs,             \* the filesystem entry at the path a stats request resolves
    pc,             \* where the handler of the current request stands
    reqPath,        \* r.URL.Path as the request arrived
    urlPath,        \* r.URL.Path as the handler has rewritten it so far
    stat,           \* statsEndpoint: the os.FileInfo returned by os.Stat
    stats,          \* statsEndpoint: named result stats
    err,            \* statsEndpoint: named result err
    w,              \* the http.ResponseWriter of the current request
    calls           \* the calls made for the request: how often os.Stat,
                    \* os.OpenFile and inner.ServeHTTP ran, what the system
                    \* calls answered, and the path the inner handler was given

vars == <<path, pathWithSlash, pathLen, fs, pc, reqPath, urlPath, stat, stats,
          err, w, calls>>

config == <<path, pathWithSlash, pathLen>>

----------------------------------------------------------------------------
(* Bounds of the model. *)

\* pieces a request path is built from, after its leading stem
MaxPieces == 4
\* trailing slashes on the configured base path
MaxTrailing == 2
\* file sizes are 0..MaxSize
MaxSize == 1
\* modification times are 1..MaxTime
MaxTime == 2

----------------------------------------------------------------------------
(* Program constants. *)

StatusOK == 200
StatusMovedPermanently == 301
StatusForbidden == 403
StatusNotFound == 404
StatusInternalServerError == 500
\* the 6 of r.URL.Path[6:], the length of "stats/"
StatsPrefixLen == 6

Slash == "/"
StatsPrefix == <<"s", "t", "a", "t", "s", "/">>

----------------------------------------------------------------------------
(* strings *)

\* s[n:]
SliceFrom(s, n) == SubSeq(s, n + 1, Len(s))

\* strings.HasPrefix(s, prefix)
HasPrefix(s, prefix) ==
    /\ Len(s) >= Len(prefix)
    /\ SubSeq(s, 1, Len(prefix)) = prefix

\* strings.HasSuffix(s, "/")
HasSuffixSlash(s) == Len(s) > 0 /\ s[Len(s)] = Slash

RECURSIVE TrimRight(_, _)
\* strings.TrimRight(s, c) for a one-character cutset
TrimRight(s, c) ==
    IF Len(s) > 0 /\ s[Len(s)] = c
    THEN TrimRight(SubSeq(s, 1, Len(s) - 1), c)
    ELSE s

\* the index of the last "/" of s, 0 when there is none
LastSlash(s) ==
    LET at == {i \in 1..Len(s) : s[i] = Slash}
    IN  IF at = {} THEN 0 ELSE CHOOSE i \in at : \A j \in at : j <= i

\* os.basename: the name os.Stat puts in the FileInfo
Basename(name) ==
    LET t == IF Len(name) > 1
             THEN LET u == TrimRight(SubSeq(name, 2, Len(name)), Slash)
                  IN  <<name[1]>> \o u
             ELSE name
        i == IF Len(t) > 0 THEN LastSlash(SubSeq(t, 1, Len(t) - 1)) ELSE 0
    IN  IF i > 0 THEN SliceFrom(t, i) ELSE t

RECURSIVE Split(_)
\* the segments of s between its slashes, empty ones included
Split(s) ==
    LET i == LastSlash(s)
    IN  IF i = 0 THEN <<s>>
        ELSE Append(Split(SubSeq(s, 1, i - 1)), SliceFrom(s, i))

RECURSIVE Join(_)
\* the segments joined by "/"
Join(segs) ==
    IF Len(segs) = 0 THEN <<>>
    ELSE IF Len(segs) = 1 THEN segs[1]
    ELSE Join(SubSeq(segs, 1, Len(segs) - 1)) \o <<Slash>> \o segs[Len(segs)]

RECURSIVE CleanSegs(_, _)
\* path.Clean's pass over the segments: empty and "." segments are dropped,
\* ".." removes the segment before it (and is kept at the start of a path
\* that is not rooted)
CleanSegs(segs, rooted) ==
    IF Len(segs) = 0 THEN <<>>
    ELSE LET out == CleanSegs(SubSeq(segs, 1, Len(segs) - 1), rooted)
             seg == segs[Len(segs)]
         IN  IF seg = <<>> \/ seg = <<".">> THEN out
             ELSE IF seg = <<".", ".">>
             THEN IF Len(out) > 0 /\ out[Len(out)] # <<".", ".">>
                  THEN SubSeq(out, 1, Len(out) - 1)
                  ELSE IF rooted THEN out ELSE Append(out, seg)
             ELSE Append(out, seg)

\* path.Clean(p)
Clean(p) ==
    IF Len(p) = 0 THEN <<".">>
    ELSE LET rooted == p[1] = Slash
             body == Join(CleanSegs(Split(p), rooted))
             out == IF rooted THEN <<Slash>> \o body ELSE body
         IN  IF Len(out) = 0 THEN <<".">> ELSE out

\* url.Parse(url) finds a host: the reference starts with "//" and an
\* authority follows
HasHost(url) ==
    /\ Len(url) > 2
    /\ url[1] = Slash /\ url[2] = Slash /\ url[3] # Slash

\* http.Redirect: the Location it sends for target url on a request for
\* oldpath.  A reference without scheme and host is made absolute against the
\* request path and cleaned, its trailing slash preserved.
RedirectLocation(url, oldpath) ==
    IF HasHost(url) THEN url
    ELSE LET old == IF Len(oldpath) = 0 THEN <<Slash>> ELSE oldpath
             abs == IF Len(url) = 0 \/ url[1] # Slash
                    THEN SubSeq(old, 1, LastSlash(old)) \o url
                    ELSE url
             cleaned == Clean(abs)
         IN  IF HasSuffixSlash(abs) /\ ~HasSuffixSlash(cleaned)
             THEN cleaned \o <<Slash>>
             ELSE cleaned

----------------------------------------------------------------------------
(* errors *)

\* the text of a syscall.Errno
ErrnoText(errno) ==
    CASE errno = "ENOENT" -> "no such file or directory"
      [] errno = "EACCES" -> "permission denied"
      [] errno = "EPERM" -> "operation not permitted"
      [] errno = "EIO" -> "input/output error"
      [] errno = "EMFILE" -> "too many open files"
      [] OTHER -> "errno"

\* os.ErrPermission.Error()
ErrPermissionText == "permission denied"

NoError == [kind |-> "nil"]

\* &os.PathError{Op, Path, Err}
PathError(op, p, errno) ==
    [kind |-> "PathError", op |-> op, path |-> p, errno |-> errno]

\* os.IsNotExist(err)
IsNotExist(e) == e.kind = "PathError" /\ e.errno = "ENOENT"

\* perr.Err.Error() == os.ErrPermission.Error()
IsPermissionText(e) == ErrnoText(e.errno) = ErrPermissionText

\* NewStatError(code, path)
NewStatError(code, p) == [kind |-> "StatError", code |-> code, path |-> p]

\* PathError.Error(): op + " " + path + ": " + text
ErrorText(e) == <<e.op, e.path, ErrnoText(e.errno)>>

\* http.StatusText(code), "" for a code it does not know
StatusText(code) ==
    CASE code = StatusOK -> "OK"
      [] code = StatusMovedPermanently -> "Moved Permanently"
      [] code = StatusForbidden -> "Forbidden"
      [] code = StatusNotFound -> "Not Found"
      [] code = StatusInternalServerError -> "Internal Server Error"
      [] OTHER -> ""

\* StatError.Message
Message(e) ==
    LET msg == StatusText(e.code)
    IN  IF msg = "" THEN "unknown error" ELSE msg

----------------------------------------------------------------------------
(* JSON documents: what json.Encoder.Encode writes for a value *)

\* Encode(nil): the JSON text null
JsonNull == [json |-> "null"]

\* FileStat.MarshalJSON
FileStatJSON(file) ==
    [json |-> "object", type |-> "file", name |-> file.Name,
     path |-> file.Path, size |-> file.Size, mtime |-> file.MTime]

\* DirStat.MarshalJSON
DirStatJSON(file) ==
    [json |-> "object", type |-> "directory", name |-> file.Name,
     path |-> file.Path, mtime |-> file.MTime]

\* StatError.MarshalJSON
StatErrorJSON(e) ==
    [json |-> "object", status |-> "error", code |-> e.code,
     path |-> e.path, message |-> <<Message(e)>>]

\* the anonymous struct {Code, Status, Message} both handlers encode
EnvelopeJSON(code, message) ==
    [json |-> "object", code |-> code, status |-> "error",
     message |-> message]

\* json.Encoder.Encode(resp) of an endpoint's result
EncodeResp(resp) ==
    CASE resp.kind = "nil" -> JsonNull
      [] resp.kind = "FileStat" -> FileStatJSON(resp)
      [] resp.kind = "DirStat" -> DirStatJSON(resp)

----------------------------------------------------------------------------
(* http.ResponseWriter *)

NewResponse ==
    [status |-> 0, nStatus |-> 0, contentType |-> "", location |-> <<>>,
     body |-> <<>>, writers |-> {}]

\* w.Header().Set("Content-Type", ct)
SetContentType(rw, ct) == [rw EXCEPT !.contentType = ct]

\* w.WriteHeader(code): the first call decides the status
WriteHeader(rw, code, who) ==
    [rw EXCEPT !.status = IF rw.nStatus = 0 THEN code ELSE @,
               !.nStatus = @ + 1,
               !.writers = @ \cup {who}]

\* w.Write(doc): writes the status 200 first when none was written
Write(rw, doc, who) ==
    LET h == IF rw.nStatus = 0 THEN WriteHeader(rw, StatusOK, who) ELSE rw
    IN  [h EXCEPT !.body = Append(@, doc), !.writers = @ \cup {who}]

----------------------------------------------------------------------------
(* the filesystem entry the request addresses, and the two system calls *)

Sizes == 0..MaxSize
Times == 1..MaxTime

\* no entry at the path; search is the search permission on the directories
\* leading to it
NoEntry(search) ==
    [kind |-> "none", search |-> search, readable |-> TRUE, size |-> 0,
     mtime |-> 1]

\* no stats request is being handled: no path is addressed
Unaddressed ==
    [kind |-> "unaddressed", search |-> TRUE, readable |-> TRUE, size |-> 0,
     mtime |-> 1]

\* the states a stats request can find the entry at its path in
FsStates ==
    {NoEntry(s) : s \in BOOLEAN}
        \cup [kind : {"file"}, search : BOOLEAN, readable : BOOLEAN,
              size : Sizes, mtime : Times]
        \cup [kind : {"dir", "other"}, search : BOOLEAN, readable : {TRUE},
              size : {0}, mtime : Times]

\* failures of a system call that do not depend on the entry
StatFaults == {"EIO"}
OpenFaults == {"EMFILE", "EPERM"}

NoInfo == [mode |-> "nil", name |-> <<>>, size |-> 0, mtime |-> 0]

\* os.Stat(p) on entry f: (FileInfo, error)
OsStat(p, f, fault) ==
    IF fault # "none"
    THEN [info |-> NoInfo, err |-> PathError("stat", p, fault)]
    ELSE IF ~f.search
    THEN [info |-> NoInfo, err |-> PathError("stat", p, "EACCES")]
    ELSE IF f.kind = "none"
    THEN [info |-> NoInfo, err |-> PathError("stat", p, "ENOENT")]
    ELSE [info |-> [mode |-> f.kind, name |-> Basename(p), size |-> f.size,
                    mtime |-> f.mtime],
          err |-> NoError]

\* os.OpenFile(p, os.O_RDONLY, 0444) on entry f: the error
OsOpen(p, f, fault) ==
    IF fault # "none" THEN PathError("open", p, fault)
    ELSE IF ~f.search THEN PathError("open", p, "EACCES")
    ELSE IF f.kind = "none" THEN PathError("open", p, "ENOENT")
    ELSE IF f.kind = "file" /\ ~f.readable THEN PathError("open", p, "EACCES")
    ELSE NoError

----------------------------------------------------------------------------
(* statsEndpoint *)

NoStats == [kind |-> "nil"]

\* FileStat as it would be with the Size left at its zero value
FileStatSizeUnset(info, p) ==
    [kind |-> "FileStat", Name |-> info.name, Path |-> p, Size |-> 0,
     MTime |-> info.mtime]

\* FileStat{Name, Path, Size, MTime} from the stat result
FileStat(info, p) ==
    [kind |-> "FileStat", Name |-> info.name, Path |-> p, Size |-> info.size,
     MTime |-> info.mtime]

\* DirStat{Name, Path, MTime} from the stat result
DirStat(info, p) ==
    [kind |-> "DirStat", Name |-> info.name, Path |-> p, MTime |-> info.mtime]

\* ClassifyError as it would be if every failure were taken for a permission
\* failure
ClassifyAnyAsForbidden(e, p) == NewStatError(StatusForbidden, p)

\* the error a failed call leaves in err: a permission failure becomes a
\* StatError 403, any other failure is returned as it is
ClassifyError(e, p) ==
    IF IsPermissionText(e) THEN NewStatError(StatusForbidden, p) ELSE e

\* AfterStat as it would be without the os.IsNotExist test
AfterStatNoNotExist(p, res) ==
    IF res.err.kind # "nil"
    THEN [next |-> "return", stats |-> NoStats,
          err |-> IF IsPermissionText(res.err)
                  THEN NewStatError(StatusForbidden, p) ELSE res.err]
    ELSE IF res.info.mode = "file"
    THEN [next |-> "open", stats |-> NoStats, err |-> NoError]
    ELSE IF res.info.mode = "dir"
    THEN [next |-> "return", stats |-> DirStat(res.info, p), err |-> NoError]
    ELSE [next |-> "return", stats |-> NoStats, err |-> NoError]

\* AfterStat as it would be if everything that is not a regular file were
\* described as a directory
AfterStatOtherAsDir(p, res) ==
    IF IsNotExist(res.err)
    THEN [next |-> "return", stats |-> NoStats,
          err |-> NewStatError(StatusNotFound, p)]
    ELSE IF res.err.kind # "nil"
    THEN [next |-> "return", stats |-> NoStats,
          err |-> IF IsPermissionText(res.err)
                  THEN NewStatError(StatusForbidden, p) ELSE res.err]
    ELSE IF res.info.mode = "file"
    THEN [next |-> "open", stats |-> NoStats, err |-> NoError]
    ELSE [next |-> "return", stats |-> DirStat(res.info, p), err |-> NoError]

\* statsEndpoint from os.Stat to the open probe: next is "open" when the
\* entry is a regular file, and "return" otherwise with (stats, err)
AfterStat(p, res) ==
    IF IsNotExist(res.err)
    THEN [next |-> "return", stats |-> NoStats,
          err |-> NewStatError(StatusNotFound, p)]
    ELSE IF res.err.kind # "nil"
    THEN [next |-> "return", stats |-> NoStats,
          err |-> ClassifyError(res.err, p)]
    ELSE IF res.info.mode = "file"
    THEN [next |-> "open", stats |-> NoStats, err |-> NoError]
    ELSE IF res.info.mode = "dir"
    THEN [next |-> "return", stats |-> DirStat(res.info, p), err |-> NoError]
    ELSE [next |-> "return", stats |-> NoStats, err |-> NoError]

\* AfterOpen as it would be if the error of the open probe were dropped
AfterOpenIgnoresError(p, info, openErr) ==
    [stats |-> FileStat(info, p), err |-> NoError]

\* statsEndpoint after os.OpenFile on a regular file: (stats, err)
AfterOpen(p, info, openErr) ==
    IF openErr.kind # "nil"
    THEN [stats |-> NoStats, err |-> ClassifyError(openErr, p)]
    ELSE [stats |-> FileStat(info, p), err |-> NoError]

----------------------------------------------------------------------------
(* handleEndpoint: the response for an endpoint's (resp, err) *)

\* HandleResponse as it would be without the return that ends the error
\* branch: the normal response follows the error response
HandleResponseNoReturn(rw, resp, e) ==
    LET first ==
            IF e.kind = "nil" THEN rw
            ELSE IF e.kind = "StatError"
            THEN Write(WriteHeader(SetContentType(rw, "application/json"),
                                   e.code, "encoder"),
                       StatErrorJSON(e), "encoder")
            ELSE Write(WriteHeader(SetContentType(rw, "application/json"),
                                   StatusInternalServerError, "encoder"),
                       EnvelopeJSON(StatusInternalServerError, ErrorText(e)),
                       "encoder")
    IN  Write(SetContentType(first, "application/json"), EncodeResp(resp),
              "encoder")

HandleResponse(rw, resp, e) ==
    IF e.kind # "nil"
    THEN IF e.kind = "StatError"
         THEN Write(WriteHeader(SetContentType(rw, "application/json"),
                                e.code, "encoder"),
                    StatErrorJSON(e), "encoder")
         ELSE Write(WriteHeader(SetContentType(rw, "application/json"),
                                StatusInternalServerError, "encoder"),
                    EnvelopeJSON(StatusInternalServerError, ErrorText(e)),
                    "encoder")
    ELSE Write(SetContentType(rw, "application/json"), EncodeResp(resp),
               "encoder")

----------------------------------------------------------------------------
(* ServeAPI *)

\* the configuration ServeAPI derives from its path argument
Configure(raw) ==
    LET trimmed == TrimRight(raw, Slash)
    IN  [path |-> trimmed, pathWithSlash |-> trimmed \o <<Slash>>,
         pathLen |-> Len(trimmed \o <<Slash>>)]

\* Route as it would be if the prefix tested were the base path without
\* its slash
RoutePrefixWithoutSlash(p) ==
    IF p = path THEN [to |-> "redirect", urlPath |-> p]
    ELSE IF HasPrefix(p, path)
    THEN LET rest == TrimRight(SliceFrom(p, pathLen), Slash)
         IN  IF HasPrefix(rest, StatsPrefix)
             THEN [to |-> "stats", urlPath |-> SliceFrom(rest, StatsPrefixLen)]
             ELSE [to |-> "noendpoint", urlPath |-> rest]
    ELSE [to |-> "inner", urlPath |-> p]

\* Route as it would be without the strings.TrimRight of the remainder
RouteKeepsTrailingSlash(p) ==
    IF p = path THEN [to |-> "redirect", urlPath |-> p]
    ELSE IF HasPrefix(p, pathWithSlash)
    THEN LET rest == SliceFrom(p, pathLen)
         IN  IF HasPrefix(rest, StatsPrefix)
             THEN [to |-> "stats", urlPath |-> SliceFrom(rest, StatsPrefixLen)]
             ELSE [to |-> "noendpoint", urlPath |-> rest]
    ELSE [to |-> "inner", urlPath |-> p]

\* the handler's decision for request path p, with r.URL.Path as it leaves it
Route(p) ==
    IF p = path THEN [to |-> "redirect", urlPath |-> p]
    ELSE IF HasPrefix(p, pathWithSlash)
    THEN LET rest == TrimRight(SliceFrom(p, pathLen), Slash)
         IN  IF HasPrefix(rest, StatsPrefix)
             THEN [to |-> "stats", urlPath |-> SliceFrom(rest, StatsPrefixLen)]
             ELSE [to |-> "noendpoint", urlPath |-> rest]
    ELSE [to |-> "inner", urlPath |-> p]

\* http.Redirect(w, r, pathWithSlash, http.StatusMovedPermanently) on a GET
RedirectResponse(rw, p) ==
    LET loc == RedirectLocation(pathWithSlash, p)
        h == [SetContentType(rw, "text/html; charset=utf-8")
                 EXCEPT !.location = loc]
    IN  Write(WriteHeader(h, StatusMovedPermanently, "redirect"),
              [json |-> "html", href |-> loc,
               text |-> StatusText(StatusMovedPermanently)],
              "redirect")

\* the response when no endpoint matches
NoEndpointResponse(rw) ==
    Write(WriteHeader(SetContentType(rw, "application/json"), StatusNotFound,
                      "router"),
          EnvelopeJSON(StatusNotFound, <<"not a valid API endpoint">>),
          "router")

----------------------------------------------------------------------------
(* inputs *)

\* base paths before their trailing slashes
Stems == {<<>>, <<"/", "a">>, <<"/", "a", "/", "/", "a">>}

RECURSIVE Slashes(_)
Slashes(n) == IF n = 0 THEN <<>> ELSE <<Slash>> \o Slashes(n - 1)

\* the path arguments ServeAPI is constructed with
BasePaths == {s \o Slashes(n) : s \in Stems, n \in 0..MaxTrailing}

Pieces == {<<"/">>, <<"a">>, <<"/", "s", "t", "a", "t", "s">>}

RECURSIVE PieceStrings(_)
PieceStrings(n) ==
    IF n = 0 THEN {<<>>}
    ELSE LET S == PieceStrings(n - 1)
         IN  S \cup {s \o q : s \in S, q \in Pieces}

\* request paths: a server hands the handler paths that start with "/"
ReqPaths ==
    {p \in {s \o t : s \in Stems, t \in PieceStrings(MaxPieces)} :
        Len(p) > 0 /\ p[1] = Slash}

----------------------------------------------------------------------------
(* the state machine *)

\* "-" is a system call that was not made, "none" one that succeeded
NoCalls ==
    [stat |-> 0, open |-> 0, inner |-> 0, innerPath |-> <<>>,
     statErrno |-> "-", openErrno |-> "-", fsAtStat |-> Unaddressed]

\* the errno of an error value, "none" for nil
Errno(e) == IF e.kind = "nil" THEN "none" ELSE e.errno

Idle ==
    /\ pc = "idle" /\ reqPath = <<>> /\ urlPath = <<>>
    /\ stat = NoInfo /\ stats = NoStats /\ err = NoError
    /\ w = NewResponse /\ calls = NoCalls

Init ==
    /\ \E raw \in BasePaths :
          LET c == Configure(raw)
          IN  /\ path = c.path
              /\ pathWithSlash = c.pathWithSlash
              /\ pathLen = c.pathLen
    /\ fs = Unaddressed
    /\ Idle

\* ServeAPI's handler, request path equal to the base path
Redirect(p) ==
    /\ Route(p).to = "redirect"
    /\ reqPath' = p
    /\ urlPath' = Route(p).urlPath
    /\ w' = RedirectResponse(w, p)
    /\ pc' = "done"
    /\ UNCHANGED <<config, fs, stat, stats, err, calls>>

\* ServeAPI's handler, a stats request: strips the prefixes and calls
\* handleStats, which calls statsEndpoint
ServeStats(p) ==
    /\ Route(p).to = "stats"
    /\ reqPath' = p
    /\ urlPath' = Route(p).urlPath
    /\ fs' \in FsStates
    /\ pc' = "stat"
    /\ UNCHANGED <<config, stat, stats, err, w, calls>>

\* ServeAPI's handler, a path under the base path that is no endpoint
NoEndpoint(p) ==
    /\ Route(p).to = "noendpoint"
    /\ reqPath' = p
    /\ urlPath' = Route(p).urlPath
    /\ w' = NoEndpointResponse(w)
    /\ pc' = "done"
    /\ UNCHANGED <<config, fs, stat, stats, err, calls>>

\* ServeAPI's handler, a path outside the base path: inner.ServeHTTP(w, r)
PassThrough(p) ==
    /\ Route(p).to = "inner"
    /\ reqPath' = p
    /\ urlPath' = Route(p).urlPath
    /\ calls' = [calls EXCEPT !.inner = @ + 1, !.innerPath = Route(p).urlPath]
    /\ pc' = "inner"
    /\ UNCHANGED <<config, fs, stat, stats, err, w>>

\* the inner handler answers the request
InnerServeHTTP ==
    /\ pc = "inner"
    /\ \E code \in {StatusOK, StatusNotFound} :
          w' = Write(WriteHeader(w, code, "inner"), [json |-> "inner"], "inner")
    /\ pc' = "done"
    /\ UNCHANGED <<config, fs, reqPath, urlPath, stat, stats, err, calls>>

\* statsEndpoint: os.Stat and what follows it up to the open probe
StatStep ==
    /\ pc = "stat"
    /\ \E fault \in StatFaults \cup {"none"} :
          LET res == OsStat(urlPath, fs, fault)
              out == AfterStat(urlPath, res)
          IN  /\ stat' = res.info
              /\ stats' = out.stats
              /\ err' = out.err
              /\ pc' = IF out.next = "open" THEN "open" ELSE "encode"
              /\ calls' = [calls EXCEPT !.stat = @ + 1,
                                    !.statErrno = Errno(res.err),
                                    !.fsAtStat = fs]
    /\ UNCHANGED <<config, fs, reqPath, urlPath, w>>

\* statsEndpoint: the open probe of a regular file and the FileStat
OpenStep ==
    /\ pc = "open"
    /\ \E fault \in OpenFaults \cup {"none"} :
          LET oerr == OsOpen(urlPath, fs, fault)
              out == AfterOpen(urlPath, stat, oerr)
          IN  /\ stats' = out.stats
              /\ err' = out.err
              /\ calls' = [calls EXCEPT !.open = @ + 1,
                                        !.openErrno = Errno(oerr)]
    /\ pc' = "encode"
    /\ UNCHANGED <<config, fs, reqPath, urlPath, stat, w>>

\* handleEndpoint writes the response for (resp, err)
Encode ==
    /\ pc = "encode"
    /\ w' = HandleResponse(w, stats, err)
    /\ pc' = "done"
    /\ UNCHANGED <<config, fs, reqPath, urlPath, stat, stats, err, calls>>

\* the request is over; the handler keeps nothing of it
Finish ==
    /\ pc = "done"
    /\ pc' = "idle" /\ reqPath' = <<>> /\ urlPath' = <<>>
    /\ stat' = NoInfo /\ stats' = NoStats /\ err' = NoError
    /\ w' = NewResponse /\ calls' = NoCalls
    /\ fs' = Unaddressed
    /\ UNCHANGED config

request == <<pc, reqPath, urlPath, stat, stats, err, w, calls>>

\* Other processes change the entry while the handler is between its system
\* calls; what they do after the handler's last call it does not see.
InFlight == pc \in {"stat", "open"}

\* another process creates a file, a directory or a device at the path
Create ==
    /\ InFlight
    /\ fs.kind = "none"
    /\ \E k \in {"file", "dir", "other"}, t \in Times :
          fs' = [fs EXCEPT !.kind = k, !.mtime = t]
    /\ UNCHANGED <<config, request>>

\* another process removes the entry
Remove ==
    /\ InFlight
    /\ fs.kind # "none"
    /\ fs' = NoEntry(fs.search)
    /\ UNCHANGED <<config, request>>

\* another process writes the file
WriteFile ==
    /\ InFlight
    /\ fs.kind = "file"
    /\ \E n \in Sizes, t \in Times :
          /\ <<n, t>> # <<fs.size, fs.mtime>>
          /\ fs' = [fs EXCEPT !.size = n, !.mtime = t]
    /\ UNCHANGED <<config, request>>

\* another process grants or revokes the read permission of the file
Chmod ==
    /\ InFlight
    /\ fs.kind = "file"
    /\ fs' = [fs EXCEPT !.readable = ~@]
    /\ UNCHANGED <<config, request>>

\* another process grants or revokes search permission on the directory
ChmodDir ==
    /\ InFlight
    /\ fs' = [fs EXCEPT !.search = ~@]
    /\ UNCHANGED <<config, request>>

Next ==
    \/ pc = "idle" /\ \E p \in ReqPaths : Redirect(p)
    \/ pc = "idle" /\ \E p \in ReqPaths : ServeStats(p)
    \/ pc = "idle" /\ \E p \in ReqPaths : NoEndpoint(p)
    \/ pc = "idle" /\ \E p \in ReqPaths : PassThrough(p)
    \/ InnerServeHTTP
    \/ StatStep
    \/ OpenStep
    \/ Encode
    \/ Finish
    \/ Create
    \/ Remove
    \/ WriteFile
    \/ Chmod
    \/ ChmodDir

Spec == Init /\ [][Next]_vars

----------------------------------------------------------------------------
(* The properties.  Each is stated on what arrived (reqPath, the            *)
(* configuration, what the system calls answered) and what left (w, the     *)
(* calls made), not on the route the handler took.                          *)

\* the request path is under the base path: it starts with B + "/"
UnderBase == HasPrefix(reqPath, path \o <<Slash>>)

\* what follows B + "/" in the request path, trailing slashes stripped
Remainder == TrimRight(SliceFrom(reqPath, Len(path) + 1), Slash)

\* a request for the stats endpoint
StatsRequest == UnderBase /\ HasPrefix(Remainder, StatsPrefix)

\* what follows "stats/" in a stats request
StatsTarget == SliceFrom(Remainder, Len(StatsPrefix))

Answered == pc = "done"

\* the response is one JSON document doc with status code
Responded(code, doc) == w.status = code /\ w.body = <<doc>>

\* C1: a stats request whose target stats successfully is answered by the
\* entry's kind: a regular file whose open probe succeeds with 200 and a
\* "file" document carrying the name, size and mtime of the stat result; a
\* directory with 200 and a "directory" document with name and mtime of the
\* stat result, no size field, and no open probe.
C1_TypeMatchesEntry ==
    (Answered /\ StatsRequest /\ calls.statErrno = "none") =>
        /\ (stat.mode = "file" /\ calls.openErrno = "none") =>
              /\ Responded(StatusOK,
                           [json |-> "object", type |-> "file",
                            name |-> stat.name, path |-> urlPath,
                            size |-> stat.size, mtime |-> stat.mtime])
              /\ stat.name = Basename(urlPath)
              /\ stat.size = calls.fsAtStat.size
              /\ stat.mtime = calls.fsAtStat.mtime
        /\ stat.mode = "dir" =>
              /\ Responded(StatusOK,
                           [json |-> "object", type |-> "directory",
                            name |-> stat.name, path |-> urlPath,
                            mtime |-> stat.mtime])
              /\ "size" \notin DOMAIN w.body[1]
              /\ stat.name = Basename(urlPath)
              /\ stat.mtime = calls.fsAtStat.mtime
              /\ calls.open = 0

\* a file answered with a size and mtime that the entry no longer has when
\* the response is written
C1_Witness_File ==
    /\ Answered /\ StatsRequest
    /\ stat.mode = "file" /\ calls.openErrno = "none"
    /\ w.status = StatusOK /\ w.body[1].type = "file"
    /\ w.body[1].size = 1 /\ fs.kind = "file" /\ fs.size = 0
    /\ Len(urlPath) > 1

\* C2: for a request B/stats/<p> the path handed to the Stat Resolver, and
\* echoed as "path", is "/" + <p> (GET /api/stats/tmp/readme.txt resolves
\* /tmp/readme.txt).
C2_AbsoluteTargetPath ==
    (StatsRequest /\ pc \in {"stat", "open", "encode", "done"}) =>
        /\ urlPath = <<Slash>> \o StatsTarget
        /\ (Answered /\ w.status = StatusOK /\ w.body[1].json = "object") =>
              w.body[1].path = <<Slash>> \o StatsTarget

\* C3: a stats request whose stat fails with a not-exist error is answered
\* 404 with the envelope {status "error", code 404, path the target path,
\* message "Not Found"}; no open is attempted and no descriptor is returned.
C3_NotExistIs404 ==
    (Answered /\ StatsRequest /\ calls.statErrno = "ENOENT") =>
        /\ Responded(StatusNotFound,
                     [json |-> "object", status |-> "error",
                      code |-> StatusNotFound, path |-> StatsTarget,
                      message |-> <<"Not Found">>])
        /\ calls.open = 0
        /\ stats = NoStats

C3_Witness ==
    /\ Answered /\ StatsRequest /\ calls.statErrno = "ENOENT"
    /\ w.status = StatusNotFound

\* C4: a regular file whose stat succeeds and whose read-only open is denied
\* by permissions ("permission denied"), also when the permission is revoked
\* between the stat and the open, is answered 403 with the StatError of that
\* path, never 200 and never with a FileStat.
C4_OpenDeniedIs403 ==
    (Answered /\ StatsRequest /\ stat.mode = "file"
        /\ calls.openErrno = "EACCES") =>
        /\ Responded(StatusForbidden,
                     [json |-> "object", status |-> "error",
                      code |-> StatusForbidden, path |-> StatsTarget,
                      message |-> <<"Forbidden">>])
        /\ err = NewStatError(StatusForbidden, StatsTarget)
        /\ stats = NoStats

\* the file was readable when it was stat'ed and was not when it was opened
C4_Witness_RevokedBetween ==
    /\ Answered /\ StatsRequest /\ stat.mode = "file"
    /\ calls.openErrno = "EACCES"
    /\ calls.fsAtStat.readable /\ calls.fsAtStat.search
    /\ fs.kind = "file" /\ ~fs.readable /\ fs.search
    /\ w.status = StatusForbidden

\* C5: a request whose path is not under B (not B, not starting with B + "/")
\* reaches the inner handler exactly once with its path unchanged; the
\* middleware writes nothing to the response and never calls the Stat
\* Resolver.
C5_PassThroughUnchanged ==
    (reqPath # path /\ ~UnderBase /\ pc \in {"inner", "done"}) =>
        /\ calls.inner = 1
        /\ calls.innerPath = reqPath
        /\ urlPath = reqPath
        /\ calls.stat = 0 /\ calls.open = 0
        /\ pc = "inner" => w = NewResponse
        /\ w.writers \subseteq {"inner"}

\* a request that only looks like the base path, answered by the inner handler
C5_Witness ==
    /\ Answered /\ reqPath # path /\ ~UnderBase
    /\ HasPrefix(reqPath, path) /\ Len(path) > 0
    /\ HasSuffixSlash(reqPath)
    /\ w.writers = {"inner"}

\* C6: a request whose path is exactly B is answered 301 with Location
\* B + "/", and neither the Stat Resolver nor the inner handler is invoked.
C6_RedirectToBaseSlash ==
    (Answered /\ reqPath = path) =>
        /\ w.status = StatusMovedPermanently
        /\ w.location = path \o <<Slash>>
        /\ calls.stat = 0 /\ calls.open = 0 /\ calls.inner = 0

\* C7: a request under B whose remainder, trailing slashes stripped, does not
\* start with "stats/" (B/, B/stats and B/stats/ included) is answered 404
\* with {code 404, status "error", message "not a valid API endpoint"}, no
\* path field, and neither the Stat Resolver nor the inner handler is invoked.
C7_NoEndpointIs404 ==
    (UnderBase /\ ~HasPrefix(Remainder, StatsPrefix) /\ pc # "idle") =>
        /\ Answered
        /\ Responded(StatusNotFound,
                     [json |-> "object", code |-> StatusNotFound,
                      status |-> "error",
                      message |-> <<"not a valid API endpoint">>])
        /\ "path" \notin DOMAIN w.body[1]
        /\ calls.stat = 0 /\ calls.open = 0 /\ calls.inner = 0

\* B/stats/ answered as no endpoint
C7_Witness_StatsSlash ==
    /\ Answered
    /\ reqPath = path \o <<Slash>> \o StatsPrefix
    /\ w.status = StatusNotFound /\ w.writers = {"router"}

\* C8: every request gets exactly one response: the status is written once
\* and one body is written, by exactly one of the redirect, the route-404
\* writer, the Response Encoder and the inner handler; nothing is written
\* before, and no system call or handler is run twice.
C8_ExactlyOneResponse ==
    /\ Answered =>
          /\ w.nStatus = 1 /\ Len(w.body) = 1
          /\ Cardinality(w.writers) = 1
          /\ w.writers \subseteq {"redirect", "router", "encoder", "inner"}
    /\ ~Answered => w = NewResponse
    /\ calls.stat <= 1 /\ calls.open <= 1 /\ calls.inner <= 1

\* a stats request answered with an error after both system calls ran
C8_Witness ==
    /\ Answered /\ StatsRequest
    /\ calls.stat = 1 /\ calls.open = 1 /\ err.kind # "nil"
    /\ w.nStatus = 1 /\ Len(w.body) = 1 /\ w.writers = {"encoder"}

\* C9: a stat failure that is neither not-exist nor permission-denied, and an
\* open failure that is not permission-denied (the file removed between stat
\* and open), is returned unclassified and answered 500 with {code 500,
\* status "error", the raw error text as message}, no path field.
C9_OtherFailureIs500 ==
    (Answered /\ StatsRequest
        /\ \/ calls.statErrno \notin {"-", "none", "ENOENT", "EACCES"}
           \/ calls.openErrno \notin {"-", "none", "EACCES"}) =>
        LET op == IF calls.open = 1 THEN "open" ELSE "stat"
            errno == IF calls.open = 1 THEN calls.openErrno
                     ELSE calls.statErrno
        IN  /\ err = PathError(op, StatsTarget, errno)
            /\ Responded(StatusInternalServerError,
                         [json |-> "object",
                          code |-> StatusInternalServerError,
                          status |-> "error",
                          message |-> <<op, StatsTarget, ErrnoText(errno)>>])
            /\ "path" \notin DOMAIN w.body[1]

\* the file was there when it was stat'ed and gone when it was opened
C9_Witness_RemovedBetween ==
    /\ Answered /\ StatsRequest
    /\ stat.mode = "file" /\ calls.openErrno = "ENOENT"
    /\ fs.kind = "none"
    /\ w.status = StatusInternalServerError

\* C10 as amended: a target that stats successfully and is neither a regular
\* file nor a directory makes the Stat Resolver return neither a descriptor
\* nor an error, without an open probe, and the response is 200 with the
\* JSON document null as its body.
C10_OtherEntryIsNull ==
    (Answered /\ StatsRequest /\ calls.statErrno = "none"
        /\ stat.mode = "other") =>
        /\ stats = NoStats /\ err = NoError
        /\ calls.open = 0
        /\ Responded(StatusOK, JsonNull)
        /\ w.contentType = "application/json"

C10_Witness ==
    /\ Answered /\ StatsRequest /\ calls.statErrno = "none"
    /\ stat.mode = "other"
    /\ w.body = <<JsonNull>>

\* C10 as claimed: for such a target the Stat Resolver returns neither a
\* descriptor nor an error and the response has an empty body.
C10_OtherEntryEmptyBody ==
    (Answered /\ StatsRequest /\ calls.statErrno = "none"
        /\ stat.mode = "other") =>
        /\ stats = NoStats /\ err = NoError
        /\ w.body = <<>>

====
